---- MODULE Spec2Model ----
(***************************************************************************)
(* Model of gaze_data_analysis.py: the geometric transform, the kinematic  *)
(* derivation, the saccade detector, the global outlier filter and the     *)
(* alignment summarizer.                                                   *)
(*                                                                         *)
(* Python floats are modelled as exact rationals [n |-> num, d |-> den]    *)
(* in lowest terms with d > 0.  Array indices are the 0-based indices of   *)
(* the source; At(s, k) reads element k of a 0-based array.                *)
(***************************************************************************)
EXTENDS Integers, Sequences, FiniteSets, TLC

VARIABLES
    pc,             \* position of the running function
    config,         \* the configuration mapping
    \* ---- detect_saccades (locals of one call)
    diopter_data, velocity_data, timestamp_data,
    i, in_saccade, saccade_start, saccades,
    \* ---- calculate_eye_diopters (arguments and result of one call)
    eye_dir, target_pos, is_left_eye, diopter_change,
    \* ---- calculate_velocity / calculate_acceleration (one call of each)
    data, window_size, velocities, accelerations,
    \* ---- analyze_eye_data
    df,             \* the data frame, a record of columns
    df_filtered,    \* row labels (0-based) kept by the outlier filter
    stable_sample,  \* row labels of the stable sample
    report          \* what has been printed

sacVars == <<diopter_data, velocity_data, timestamp_data,
             i, in_saccade, saccade_start, saccades>>
geoVars == <<eye_dir, target_pos, is_left_eye, diopter_change>>
kinVars == <<data, window_size, velocities, accelerations>>
dfVars  == <<df, df_filtered, stable_sample, report>>

vars == <<pc, config, sacVars, geoVars, kinVars, dfVars>>

----------------------------------------------------------------------------
(* Bounds of the explored inputs *)

MaxLen == 5

----------------------------------------------------------------------------
(* Exact arithmetic standing for float arithmetic *)

RECURSIVE GCD(_, _)
GCD(a, b) == IF b = 0 THEN a ELSE GCD(b, a % b)

IAbs(x) == IF x < 0 THEN -x ELSE x

\* nan: every comparison with it is false, every operation on it yields it
NaN == [n |-> 0, d |-> 0]

Rat(num, den) ==
    IF den = 0 THEN NaN
    ELSE LET s == IF den < 0 THEN -1 ELSE 1
             g == GCD(IAbs(num), IAbs(den))
         IN  [n |-> (s * num) \div g, d |-> (s * den) \div g]

Zero == Rat(0, 1)

RAdd(a, b) == Rat(a.n * b.d + b.n * a.d, a.d * b.d)

RNeg(a) == [n |-> -a.n, d |-> a.d]

RSub(a, b) == Rat(a.n * b.d - b.n * a.d, a.d * b.d)

RMul(a, b) == Rat(a.n * b.n, a.d * b.d)

RDivInt(a, k) == Rat(a.n, a.d * k)

RDiv(a, b) == Rat(a.n * b.d, a.d * b.n)

RAbs(a) == [n |-> IAbs(a.n), d |-> a.d]

RSq(a) == RMul(a, a)

RLt(a, b) == a.n * b.d < b.n * a.d

RGt(a, b) == RLt(b, a)

RMaxOf(a, b) == IF RLt(a, b) THEN b ELSE a

At(s, k) == s[k + 1]

----------------------------------------------------------------------------
(* Configuration *)

DEFAULT_CONFIG ==
    [DIOPTER_TO_DEGREE_CONVERSION |-> Rat(1, 1),
     OUTLIER_THRESHOLD_MULTIPLIER |-> Rat(3, 1),
     STABLE_SAMPLE_THRESHOLD      |-> Rat(1, 1),
     VELOCITY_WINDOW_SIZE         |-> 2,
     ACCELERATION_WINDOW_SIZE     |-> 2,
     SACCADE_VELOCITY_THRESHOLD   |-> Rat(1, 2)]

----------------------------------------------------------------------------
(* Saccade characteristics *)

calculate_saccade_amplitude(diopters, start_index, end_index, cfg) ==
    RMul(RSub(At(diopters, end_index), At(diopters, start_index)),
         cfg.DIOPTER_TO_DEGREE_CONVERSION)

calculate_saccade_duration(timestamps, start_index, end_index) ==
    RSub(At(timestamps, end_index), At(timestamps, start_index))

\* max(|v[k]|) for lo <= k < hi; np.max raises on an empty slice
RECURSIVE SliceAbsMax(_, _, _)
SliceAbsMax(velocity, lo, hi) ==
    IF lo + 1 >= hi THEN RAbs(At(velocity, lo))
    ELSE RMaxOf(RAbs(At(velocity, lo)), SliceAbsMax(velocity, lo + 1, hi))

calculate_saccade_peak_velocity(velocity, start_index, end_index, cfg) ==
    RMul(SliceAbsMax(velocity, start_index, end_index),
         cfg.DIOPTER_TO_DEGREE_CONVERSION)

----------------------------------------------------------------------------
(* detect_saccades *)

None == -1

SaccadeLocals0 == [in_saccade |-> FALSE, saccade_start |-> None, saccades |-> <<>>]

\* The event appended when the saccade opened at st.saccade_start closes at k
SaccadeEvent(st, diopters, velocity, timestamps, cfg, k) ==
    [start_index   |-> st.saccade_start,
     end_index     |-> k,
     amplitude     |-> calculate_saccade_amplitude(
                          diopters, st.saccade_start, k, cfg),
     duration      |-> calculate_saccade_duration(
                          timestamps, st.saccade_start, k),
     peak_velocity |-> calculate_saccade_peak_velocity(
                          velocity, st.saccade_start, k, cfg)]

\* Variant: a sample equal to the threshold opens a saccade (>= for >)
SaccadeIter_OpensAtThreshold(st, diopters, velocity, timestamps, cfg, k) ==
    LET threshold == cfg.SACCADE_VELOCITY_THRESHOLD
        v == RAbs(At(velocity, k))
    IN  IF ~st.in_saccade /\ ~RLt(v, threshold)
        THEN [st EXCEPT !.in_saccade = TRUE, !.saccade_start = k]
        ELSE IF st.in_saccade /\ RLt(v, threshold)
        THEN [st EXCEPT
                !.in_saccade = FALSE,
                !.saccades = Append(@, SaccadeEvent(st, diopters, velocity,
                                                    timestamps, cfg, k))]
        ELSE st

\* Variant: a sample equal to the threshold closes a saccade (<= for <)
SaccadeIter_ClosesAtThreshold(st, diopters, velocity, timestamps, cfg, k) ==
    LET threshold == cfg.SACCADE_VELOCITY_THRESHOLD
        v == RAbs(At(velocity, k))
    IN  IF ~st.in_saccade /\ RGt(v, threshold)
        THEN [st EXCEPT !.in_saccade = TRUE, !.saccade_start = k]
        ELSE IF st.in_saccade /\ ~RGt(v, threshold)
        THEN [st EXCEPT
                !.in_saccade = FALSE,
                !.saccades = Append(@, SaccadeEvent(st, diopters, velocity,
                                                    timestamps, cfg, k))]
        ELSE st

\* Variant: closing does not reset in_saccade
SaccadeIter_StaysOpen(st, diopters, velocity, timestamps, cfg, k) ==
    LET threshold == cfg.SACCADE_VELOCITY_THRESHOLD
        v == RAbs(At(velocity, k))
    IN  IF ~st.in_saccade /\ RGt(v, threshold)
        THEN [st EXCEPT !.in_saccade = TRUE, !.saccade_start = k]
        ELSE IF st.in_saccade /\ RLt(v, threshold)
        THEN [st EXCEPT
                !.saccades = Append(@, SaccadeEvent(st, diopters, velocity,
                                                    timestamps, cfg, k))]
        ELSE st

\* One iteration of the for loop of detect_saccades, at index k
SaccadeIter(st, diopters, velocity, timestamps, cfg, k) ==
    LET threshold == cfg.SACCADE_VELOCITY_THRESHOLD
        v == RAbs(At(velocity, k))
    IN  IF ~st.in_saccade /\ RGt(v, threshold)
        THEN [st EXCEPT !.in_saccade = TRUE, !.saccade_start = k]
        ELSE IF st.in_saccade /\ RLt(v, threshold)
        THEN [st EXCEPT
                !.in_saccade = FALSE,
                !.saccades = Append(@, SaccadeEvent(st, diopters, velocity,
                                                    timestamps, cfg, k))]
        ELSE st

RECURSIVE SaccadeLoop(_, _, _, _, _, _)
SaccadeLoop(st, diopters, velocity, timestamps, cfg, k) ==
    IF k >= Len(velocity) THEN st
    ELSE SaccadeLoop(SaccadeIter(st, diopters, velocity, timestamps, cfg, k),
                     diopters, velocity, timestamps, cfg, k + 1)

detect_saccades(diopters, velocity, timestamps, cfg) ==
    SaccadeLoop(SaccadeLocals0, diopters, velocity, timestamps, cfg, 0).saccades

----------------------------------------------------------------------------
(* Variables of the functions that are not running *)

SacIdle ==
    /\ diopter_data = <<>> /\ velocity_data = <<>> /\ timestamp_data = <<>>
    /\ i = 0 /\ in_saccade = FALSE /\ saccade_start = None /\ saccades = <<>>

GeoIdle ==
    /\ eye_dir = <<>> /\ target_pos = <<>>
    /\ is_left_eye = FALSE /\ diopter_change = NaN

KinIdle ==
    /\ data = <<>> /\ window_size = <<>>
    /\ velocities = <<>> /\ accelerations = <<>>

DfIdle ==
    /\ df = <<>> /\ df_filtered = <<>> /\ stable_sample = <<>> /\ report = <<>>

----------------------------------------------------------------------------
(* A call of detect_saccades, one loop iteration per step *)

VelocityValues ==
    {Zero, Rat(3, 10), Rat(1, 2), Rat(3, 5), Rat(7, 10), Rat(-3, 5)}

ThresholdValues == {Rat(1, 2), Rat(3, 10)}

ExampleSeries ==
    <<Zero, Zero, Rat(3, 5), Rat(7, 10), Rat(3, 10), Zero, Zero>>

VelocityInputs ==
    (UNION {[1..n -> VelocityValues] : n \in 0..MaxLen}) \cup {ExampleSeries}

Ramp(n) == [k \in 1..n |-> Rat(k - 1, 10)]

InitSaccade ==
    /\ pc = "loop"
    /\ \E thr \in ThresholdValues :
         config = [DEFAULT_CONFIG EXCEPT !.SACCADE_VELOCITY_THRESHOLD = thr]
    /\ velocity_data \in VelocityInputs
    /\ diopter_data = Ramp(Len(velocity_data))
    /\ timestamp_data = Ramp(Len(velocity_data))
    /\ i = 0
    /\ in_saccade = FALSE
    /\ saccade_start = None
    /\ saccades = <<>>
    /\ GeoIdle /\ KinIdle /\ DfIdle

SaccadeStep ==
    /\ pc = "loop"
    /\ i < Len(velocity_data)
    /\ LET st == SaccadeIter([in_saccade |-> in_saccade,
                              saccade_start |-> saccade_start,
                              saccades |-> saccades],
                             diopter_data, velocity_data, timestamp_data,
                             config, i)
       IN  /\ in_saccade' = st.in_saccade
           /\ saccade_start' = st.saccade_start
           /\ saccades' = st.saccades
    /\ i' = i + 1
    /\ UNCHANGED <<pc, config, diopter_data, velocity_data, timestamp_data,
                   geoVars, kinVars, dfVars>>

\* Variant: the saccade still open at the end is emitted, closed at the
\* last sample
SaccadeReturn_EmitsOpen ==
    /\ pc = "loop"
    /\ i >= Len(velocity_data)
    /\ pc' = "done"
    /\ saccades' =
         IF in_saccade
         THEN Append(saccades,
                     SaccadeEvent([in_saccade |-> in_saccade,
                                   saccade_start |-> saccade_start,
                                   saccades |-> saccades],
                                  diopter_data, velocity_data, timestamp_data,
                                  config, Len(velocity_data) - 1))
         ELSE saccades
    /\ UNCHANGED <<config, diopter_data, velocity_data, timestamp_data,
                   i, in_saccade, saccade_start, geoVars, kinVars, dfVars>>

SaccadeReturn ==
    /\ pc = "loop"
    /\ i >= Len(velocity_data)
    /\ pc' = "done"
    /\ UNCHANGED <<config, sacVars, geoVars, kinVars, dfVars>>

NextSaccade == SaccadeStep \/ SaccadeReturn

SpecSaccade == InitSaccade /\ [][NextSaccade]_vars

----------------------------------------------------------------------------
(* Geometric transform *)

\* A vector (x, y, z) / sqrt(s2) with integer x, y, z
Vec(x, y, z) == [x |-> x, y |-> y, z |-> z, s2 |-> 1]

\* v / np.linalg.norm(v)
Normalized(v) == [v EXCEPT !.s2 = v.x * v.x + v.y * v.y + v.z * v.z]

\* degrees(arctan(p / q)) for coprime 0 <= p <= q, to two decimals
ArctanDegTable(p, q) ==
    CASE p = 0 -> Zero
      [] p = 1 /\ q = 1 -> Rat(45, 1)
      [] p = 1 /\ q = 2 -> Rat(2657, 100)

\* degrees(arctan(a / b)) for a >= 0, b > 0
ArctanDeg(a, b) ==
    LET g == GCD(a, b)
    IN  IF a <= b THEN ArctanDegTable(a \div g, b \div g)
        ELSE RSub(Rat(90, 1), ArctanDegTable(b \div g, a \div g))

\* np.degrees(np.arctan2(a, b)); a positive common factor of a and b cancels
Arctan2Deg(a, b) ==
    CASE b > 0 /\ a >= 0 -> ArctanDeg(a, b)
      [] b > 0 /\ a < 0  -> RNeg(ArctanDeg(-a, b))
      [] b = 0 /\ a > 0  -> Rat(90, 1)
      [] b = 0 /\ a < 0  -> Rat(-90, 1)
      [] b = 0 /\ a = 0  -> Zero
      [] b < 0 /\ a >= 0 -> RSub(Rat(180, 1), ArctanDeg(a, -b))
      [] b < 0 /\ a < 0  -> RSub(ArctanDeg(-a, -b), Rat(180, 1))

calculate_eye_diopters(eye, target, is_left, cfg) ==
    LET target_horizontal_angle0 == Arctan2Deg(target.x, target.z)
        target_horizontal_angle ==
            IF is_left THEN RNeg(target_horizontal_angle0)
            ELSE target_horizontal_angle0
        eye_dir_normalized == Normalized(eye)
        current_horizontal_angle ==
            Arctan2Deg(eye_dir_normalized.x, eye_dir_normalized.z)
        angle_difference ==
            RSub(current_horizontal_angle, target_horizontal_angle)
    IN  RDiv(angle_difference, cfg.DIOPTER_TO_DEGREE_CONVERSION)

Coordinates == -2..2

Directions ==
    {Vec(x, y, z) : x \in Coordinates, y \in 0..1, z \in Coordinates}
        \ {Vec(0, 0, 0)}

ConversionValues == {Rat(1, 1), Rat(9, 10)}

InitDiopter ==
    /\ pc = "call"
    /\ \E c \in ConversionValues :
         config = [DEFAULT_CONFIG EXCEPT !.DIOPTER_TO_DEGREE_CONVERSION = c]
    /\ eye_dir \in Directions
    /\ target_pos \in Directions
    /\ is_left_eye \in BOOLEAN
    /\ diopter_change = NaN
    /\ SacIdle /\ KinIdle /\ DfIdle

DiopterCall ==
    /\ pc = "call"
    /\ diopter_change' =
         calculate_eye_diopters(eye_dir, target_pos, is_left_eye, config)
    /\ pc' = "returned"
    /\ UNCHANGED <<config, eye_dir, target_pos, is_left_eye,
                   sacVars, kinVars, dfVars>>

NextDiopter == DiopterCall

SpecDiopter == InitDiopter /\ [][NextDiopter]_vars

----------------------------------------------------------------------------
(* Kinematic derivation *)

\* Variant: the difference is not divided by the window
calculate_velocity_Undivided(xs, w) ==
    [k \in 1..Len(xs) |->
        IF k - 1 >= w
        THEN RSub(At(xs, k - 1), At(xs, k - 1 - w))
        ELSE Zero]

\* Variant: the loop starts at 0, so that data[i - window_size] wraps around
calculate_velocity_FromZero(xs, w) ==
    [k \in 1..Len(xs) |->
        RDivInt(RSub(At(xs, k - 1), At(xs, (k - 1 - w) % Len(xs))), w)]

calculate_velocity(xs, w) ==
    [k \in 1..Len(xs) |->
        IF k - 1 >= w
        THEN RDivInt(RSub(At(xs, k - 1), At(xs, k - 1 - w)), w)
        ELSE Zero]

calculate_acceleration(xs, w) ==
    [k \in 1..Len(xs) |->
        IF k - 1 >= w
        THEN RDivInt(RSub(At(xs, k - 1), At(xs, k - 1 - w)), w)
        ELSE Zero]

MaxData == 4

MaxWindow == 3

DataValues == {Zero, Rat(1, 10), Rat(1, 2), Rat(-3, 10)}

InitKin ==
    /\ pc = "velocity"
    /\ config = DEFAULT_CONFIG
    /\ data \in UNION {[1..n -> DataValues] : n \in 0..MaxData}
    /\ window_size \in [velocity : 1..MaxWindow, acceleration : 1..MaxWindow]
    /\ velocities = <<>>
    /\ accelerations = <<>>
    /\ SacIdle /\ GeoIdle /\ DfIdle

KinVelocity ==
    /\ pc = "velocity"
    /\ velocities' = calculate_velocity(data, window_size.velocity)
    /\ pc' = "acceleration"
    /\ UNCHANGED <<config, data, window_size, accelerations,
                   sacVars, geoVars, dfVars>>

KinAcceleration ==
    /\ pc = "acceleration"
    /\ accelerations' = calculate_acceleration(velocities, window_size.acceleration)
    /\ pc' = "derived"
    /\ UNCHANGED <<config, data, window_size, velocities,
                   sacVars, geoVars, dfVars>>

NextKin == KinVelocity \/ KinAcceleration

SpecKin == InitKin /\ [][NextKin]_vars

----------------------------------------------------------------------------
(* analyze_eye_data: column statistics *)

RECURSIVE SumFrom(_, _)
SumFrom(col, k) ==
    IF k > Len(col) THEN Zero ELSE RAdd(col[k], SumFrom(col, k + 1))

\* Series.mean(); nan for an empty series
Mean(col) == RDivInt(SumFrom(col, 1), Len(col))

\* Series.std() squared: the sample variance (ddof = 1); nan below two rows
Variance(col) ==
    IF Len(col) < 2 THEN NaN
    ELSE LET m == Mean(col)
         IN  RDivInt(SumFrom([k \in 1..Len(col) |-> RSq(RSub(col[k], m))], 1),
                     Len(col) - 1)

\* np.abs(v - mean) < k * std, decided on the squares of both sides
WithinStd(v, mean, k, variance) ==
    /\ k.n > 0
    /\ RLt(RSq(RSub(v, mean)), RMul(RSq(k), variance))

\* Boolean indexing: the labels, in order, whose mask entry is true
RECURSIVE SelectLabels(_, _, _)
SelectLabels(labels, k, mask) ==
    IF k > Len(labels) THEN <<>>
    ELSE IF mask[k] THEN <<labels[k]>> \o SelectLabels(labels, k + 1, mask)
    ELSE SelectLabels(labels, k + 1, mask)

AllLabels(n) == [k \in 1..n |-> k - 1]

\* frame[col] of the rows with the given labels
Column(frame, name, labels) == [k \in 1..Len(labels) |-> At(frame[name], labels[k])]

TrackedSignals == {"LeftDiopters", "LeftVertical", "RightDiopters", "RightVertical"}

\* Mean and squared std of each tracked signal over the entire frame
SignalStats(frame) ==
    [name \in TrackedSignals |->
        [mean |-> Mean(frame[name]), variance |-> Variance(frame[name])]]

\* The test of one tracked signal on row r
SignalKeeps(frame, stats, name, k, r) ==
    WithinStd(At(frame[name], r), stats[name].mean, k, stats[name].variance)

\* Variant: the four tests are joined by | instead of &
OutlierKeeps_Any(frame, stats, k, r) ==
    \/ SignalKeeps(frame, stats, "LeftDiopters", k, r)
    \/ SignalKeeps(frame, stats, "LeftVertical", k, r)
    \/ SignalKeeps(frame, stats, "RightDiopters", k, r)
    \/ SignalKeeps(frame, stats, "RightVertical", k, r)

OutlierKeeps(frame, stats, k, r) ==
    /\ SignalKeeps(frame, stats, "LeftDiopters", k, r)
    /\ SignalKeeps(frame, stats, "LeftVertical", k, r)
    /\ SignalKeeps(frame, stats, "RightDiopters", k, r)
    /\ SignalKeeps(frame, stats, "RightVertical", k, r)

\* The statistics are computed once, before the rows are tested
OutlierFilter(frame, cfg) ==
    LET labels == AllLabels(Len(frame.Timestamp))
        Kept(stats) ==
            SelectLabels(labels, 1,
                [k \in 1..Len(labels) |->
                    OutlierKeeps(frame, stats,
                                 cfg.OUTLIER_THRESHOLD_MULTIPLIER, labels[k])])
    IN  CHOOSE kept \in {Kept(stats) : stats \in {SignalStats(frame)}} : TRUE

\* The two base alignments of the diopter signals
BaseAlignment(frame, labels) ==
    [left  |-> Mean(Column(frame, "LeftDiopters", labels)),
     right |-> Mean(Column(frame, "RightDiopters", labels))]

StableSample(frame, labels, cfg) ==
    LET left_base_alignment_diopter == BaseAlignment(frame, labels).left
        T == cfg.STABLE_SAMPLE_THRESHOLD
        Stable(r) ==
            /\ RLt(RAbs(RSub(At(frame.LeftDiopters, r),
                             left_base_alignment_diopter)), T)
            /\ RLt(RAbs(RSub(At(frame.RightDiopters, r),
                             left_base_alignment_diopter)), T)
    IN  SelectLabels(labels, 1, [k \in 1..Len(labels) |-> Stable(labels[k])])

N_CLUSTERS == 3

----------------------------------------------------------------------------
(* analyze_eye_data: the run, from the derived columns on *)

MaxRows == 4

MaxRowsLong == 12

DiopterValues == {Zero, Rat(1, 1), Rat(2, 1)}

RightDiopterValues == {Zero, Rat(2, 1)}

Const(n, v) == [k \in 1..n |-> v]

Alternating(n) == [k \in 1..n |-> Rat((k - 1) % 2, 1)]

Patterns(n) == {Const(n, Zero), Alternating(n)}

InjectedValues == {Zero, Rat(1, 1), Rat(-20, 1)}

Inject(col, p, e) == [col EXCEPT ![p + 1] = RAdd(@, e)]

Frame(ts, ld, lv, rd, rv) ==
    [Timestamp |-> ts,
     LeftDiopters |-> ld, LeftVertical |-> lv,
     RightDiopters |-> rd, RightVertical |-> rv,
     LeftVelocity |-> <<>>, RightVelocity |-> <<>>,
     LeftAcceleration |-> <<>>, RightAcceleration |-> <<>>,
     LeftSaccades |-> <<>>, RightSaccades |-> <<>>]

\* Short recordings with arbitrary diopter signals
ShortFrame(frame) ==
    \E n \in 0..MaxRows :
      \E ld \in [1..n -> DiopterValues], rd \in [1..n -> RightDiopterValues],
         v \in Patterns(n) :
        frame = Frame(Ramp(n), ld, v, rd, v)

\* Long recordings: flat or alternating signals, one of them with one
\* sample displaced
LongFrame(frame) ==
    \E n \in (MaxRows + 1)..MaxRowsLong :
      \E ld \in Patterns(n), lv \in Patterns(n),
         rd \in Patterns(n), rv \in Patterns(n),
         sig \in TrackedSignals, p \in 0..(n - 1), e \in InjectedValues :
        frame = [Frame(Ramp(n), ld, lv, rd, rv) EXCEPT ![sig] = Inject(@, p, e)]

PipelineConfigs ==
    {DEFAULT_CONFIG,
     [DEFAULT_CONFIG EXCEPT !.VELOCITY_WINDOW_SIZE = 1],
     [DEFAULT_CONFIG EXCEPT !.SACCADE_VELOCITY_THRESHOLD = Zero]}

Report0 ==
    [num_left_saccades |-> None, num_right_saccades |-> None,
     left_base_alignment_diopter |-> NaN, right_base_alignment_diopter |-> NaN,
     stable |-> "", start_time |-> NaN, end_time |-> NaN]

InitAnalyze ==
    /\ pc = "derived"
    /\ \/ config \in PipelineConfigs /\ ShortFrame(df)
       \/ config = DEFAULT_CONFIG /\ LongFrame(df)
    /\ df_filtered = <<>>
    /\ stable_sample = <<>>
    /\ report = Report0
    /\ SacIdle /\ GeoIdle /\ KinIdle

\* lines 169-173
Kinematics ==
    /\ pc = "derived"
    /\ LET lv == calculate_velocity(df.LeftDiopters, config.VELOCITY_WINDOW_SIZE)
           rv == calculate_velocity(df.RightDiopters, config.VELOCITY_WINDOW_SIZE)
       IN  df' = [df EXCEPT
                    !.LeftVelocity = lv,
                    !.RightVelocity = rv,
                    !.LeftAcceleration =
                        calculate_acceleration(lv, config.ACCELERATION_WINDOW_SIZE),
                    !.RightAcceleration =
                        calculate_acceleration(rv, config.ACCELERATION_WINDOW_SIZE)]
    /\ pc' = "kinematics"
    /\ UNCHANGED <<config, df_filtered, stable_sample, report,
                   sacVars, geoVars, kinVars>>

\* lines 175-177: every row of the column holds the same list
DetectSaccades ==
    /\ pc = "kinematics"
    /\ df' = [df EXCEPT
                !.LeftSaccades =
                    Const(Len(df.Timestamp),
                          detect_saccades(df.LeftDiopters, df.LeftVelocity,
                                          df.Timestamp, config)),
                !.RightSaccades =
                    Const(Len(df.Timestamp),
                          detect_saccades(df.RightDiopters, df.RightVelocity,
                                          df.Timestamp, config))]
    /\ pc' = "saccades"
    /\ UNCHANGED <<config, df_filtered, stable_sample, report,
                   sacVars, geoVars, kinVars>>

\* lines 179-185: iloc[0] raises IndexError on an empty frame
ReportSaccades ==
    /\ pc = "saccades"
    /\ IF Len(df.Timestamp) = 0
       THEN pc' = "failed" /\ UNCHANGED report
       ELSE /\ pc' = "reported"
            /\ report' = [report EXCEPT
                            !.num_left_saccades = Len(df.LeftSaccades[1]),
                            !.num_right_saccades = Len(df.RightSaccades[1])]
    /\ UNCHANGED <<config, df, df_filtered, stable_sample,
                   sacVars, geoVars, kinVars>>

\* lines 187-207
FilterOutliers ==
    /\ pc = "reported"
    /\ df_filtered' = OutlierFilter(df, config)
    /\ pc' = "filtered"
    /\ UNCHANGED <<config, df, stable_sample, report,
                   sacVars, geoVars, kinVars>>

\* lines 209-215: StandardScaler and KMeans raise ValueError when the
\* filtered frame has fewer rows than clusters
Clustering ==
    /\ pc = "filtered"
    /\ pc' = IF Len(df_filtered) < N_CLUSTERS THEN "failed" ELSE "clustered"
    /\ UNCHANGED <<config, dfVars, sacVars, geoVars, kinVars>>

\* lines 336-361
Summarize ==
    /\ pc = "clustered"
    /\ LET base == BaseAlignment(df, df_filtered)
           sample == StableSample(df, df_filtered, config)
       IN  /\ stable_sample' = sample
           /\ report' =
                IF Len(sample) > 0
                THEN [report EXCEPT
                        !.left_base_alignment_diopter = base.left,
                        !.right_base_alignment_diopter = base.right,
                        !.stable = "range",
                        !.start_time = At(df.Timestamp, sample[1]),
                        !.end_time = At(df.Timestamp, sample[Len(sample)])]
                ELSE [report EXCEPT
                        !.left_base_alignment_diopter = base.left,
                        !.right_base_alignment_diopter = base.right,
                        !.stable = "none"]
    /\ pc' = "summarized"
    /\ UNCHANGED <<config, df, df_filtered, sacVars, geoVars, kinVars>>

NextAnalyze ==
    \/ Kinematics
    \/ DetectSaccades
    \/ ReportSaccades
    \/ FilterOutliers
    \/ Clustering
    \/ Summarize

SpecAnalyze == InitAnalyze /\ [][NextAnalyze]_vars

----------------------------------------------------------------------------
(* Properties of detect_saccades, under SpecSaccade *)

Threshold == config.SACCADE_VELOCITY_THRESHOLD

Events == {saccades[k] : k \in 1..Len(saccades)}

\* One loop iteration, seen from outside: what may change and when
C1_Iteration ==
    (pc = "loop" /\ i' = i + 1) =>
        LET v == RAbs(At(velocity_data, i))
            opened == ~in_saccade /\ in_saccade'
            closed == in_saccade /\ ~in_saccade'
        IN  /\ opened <=> (~in_saccade /\ RGt(v, Threshold))
            /\ opened => (saccade_start' = i /\ saccades' = saccades)
            /\ closed <=> (in_saccade /\ RLt(v, Threshold))
            /\ closed =>
                 /\ Len(saccades') = Len(saccades) + 1
                 /\ SubSeq(saccades', 1, Len(saccades)) = saccades
                 /\ saccades'[Len(saccades')].start_index = saccade_start
                 /\ saccades'[Len(saccades')].end_index = i
            /\ (in_saccade' = in_saccade) =>
                 (saccades' = saccades /\ saccade_start' = saccade_start)
            /\ (v = Threshold) => (in_saccade' = in_saccade)

C1_Example ==
    (pc = "done" /\ velocity_data = ExampleSeries /\ Threshold = Rat(1, 2)) =>
        /\ Len(saccades) = 1
        /\ saccades[1].start_index = 2
        /\ saccades[1].end_index = 4

\* C1: detect_saccades is a two-state machine: a saccade opens at index i
\* exactly when the detector is idle and |velocity[i]| > threshold (start = i),
\* it is closed and emitted at the first later index with |velocity| <
\* threshold (end = that index), a sample equal to the threshold changes
\* nothing, and [0,0,0.6,0.7,0.3,0,0] with threshold 0.5 yields exactly the
\* one saccade (2, 4).
C1_TwoStateMachine == [][C1_Iteration]_vars /\ []C1_Example

C1_Witness ==
    /\ pc = "done"
    /\ velocity_data = ExampleSeries
    /\ Threshold = Rat(1, 2)
    /\ Len(saccades) = 1

\* C2: a saccade still open after the last sample is never emitted, and every
\* emitted event was closed by a sample with |velocity| < threshold.
C2_OpenSaccadeDiscarded ==
    pc = "done" =>
        /\ in_saccade => \A e \in Events : e.start_index # saccade_start
        /\ \A e \in Events : RLt(RAbs(At(velocity_data, e.end_index)), Threshold)

C2_Witness ==
    /\ pc = "done"
    /\ in_saccade
    /\ saccade_start > 0
    /\ Len(saccades) >= 1

\* C3: the events of one call, in list order, are non-empty half-open
\* intervals, each starting after the end of the one before it.
C3_EventsOrdered ==
    /\ \A k \in 1..Len(saccades) :
         saccades[k].start_index < saccades[k].end_index
    /\ \A k \in 2..Len(saccades) :
         saccades[k].start_index > saccades[k - 1].end_index

C3_Witness ==
    /\ pc = "done"
    /\ Len(saccades) >= 2

\* max(|velocity[k]|) over the closed range lo..hi
ClosedPeak(lo, hi) ==
    CHOOSE m \in {RAbs(At(velocity_data, k)) : k \in lo..hi} :
        \A k \in lo..hi : ~RLt(m, RAbs(At(velocity_data, k)))

----------------------------------------------------------------------------
(* Properties of calculate_eye_diopters, under SpecDiopter *)

\* C4: an eye direction exactly equal to the target direction yields
\* deviation 0, for the left eye and for the right eye, whatever the
\* target's horizontal angle.
C4_ZeroDeviationOnTarget ==
    (pc = "returned" /\ eye_dir = target_pos) => diopter_change = Zero

----------------------------------------------------------------------------
(* Properties of the kinematic derivation, under SpecKin *)

\* out is the backward difference of in over window w, zero-filled below w
BackwardDifference(out, in, w) ==
    /\ Len(out) = Len(in)
    /\ \A k \in 0..(Len(in) - 1) :
         IF k < w THEN At(out, k) = Zero
         ELSE RMul(At(out, k), Rat(w, 1)) = RSub(At(in, k), At(in, k - w))

----------------------------------------------------------------------------
(* Properties of analyze_eye_data, under SpecAnalyze *)

Rows == Len(df.Timestamp)

Detected == pc \notin {"derived", "kinematics"}

Filtered == pc \in {"filtered", "clustered", "summarized"}

ListedSaccades ==
    UNION {{df.LeftSaccades[r][k] : k \in 1..Len(df.LeftSaccades[r])} \cup
           {df.RightSaccades[r][k] : k \in 1..Len(df.RightSaccades[r])} :
           r \in 1..Len(df.LeftSaccades)}

\* C10: with a non-negative threshold, no saccade of the run starts before
\* index VELOCITY_WINDOW_SIZE, and fewer than VELOCITY_WINDOW_SIZE + 2 samples
\* give no saccade for either eye.
C10_ColdStartOpensNothing ==
    (Detected /\ ~RLt(Threshold, Zero)) =>
        /\ \A e \in ListedSaccades : e.start_index >= config.VELOCITY_WINDOW_SIZE
        /\ Rows < config.VELOCITY_WINDOW_SIZE + 2 => ListedSaccades = {}

C10_Witness ==
    /\ Detected
    /\ ~RLt(Threshold, Zero)
    /\ Rows = config.VELOCITY_WINDOW_SIZE + 2
    /\ config.VELOCITY_WINDOW_SIZE = 2
    /\ \E e \in ListedSaccades : e.start_index = config.VELOCITY_WINDOW_SIZE

\* Every sample has the same value in each tracked signal
AllEqual ==
    \A name \in TrackedSignals :
        \A r \in 1..Rows : df[name][r] = df[name][1]

\* C5: the global filter removes nothing from a series whose samples are
\* equal in each of the four tracked signals.
C5_AllEqualKeepsAll ==
    (Filtered /\ AllEqual) => df_filtered = AllLabels(Rows)

\* Signal name has one displaced sample, at row p, and equal samples elsewhere
OneInjected(name, p) ==
    /\ Rows >= 3
    /\ \A r, q \in (0..(Rows - 1)) \ {p} : At(df[name], r) = At(df[name], q)
    /\ \A r \in (0..(Rows - 1)) \ {p} : At(df[name], r) # At(df[name], p)

\* The tests of the other three signals keep every sample
OthersKeepAll(stats, name) ==
    \A other \in TrackedSignals \ {name} :
        \A r \in 0..(Rows - 1) :
            SignalKeeps(df, stats, other, config.OUTLIER_THRESHOLD_MULTIPLIER, r)

AllBut(p) == SelectLabels(AllLabels(Rows), 1, [k \in 1..Rows |-> k - 1 # p])

\* The least number of rows at which one displaced sample among equal ones
\* lies 3 sample standard deviations from the mean: (n - 1)^2 > 3^2 * n
MinRowsToReject ==
    CHOOSE n \in 2..100 :
        /\ (n - 1) * (n - 1) > 9 * n
        /\ \A m \in 2..(n - 1) : (m - 1) * (m - 1) <= 9 * m

\* The sample with the injected value, and no other, is removed
InjectedRemoved ==
    \A stats \in {SignalStats(df)} :
        \A name \in TrackedSignals : \A p \in 0..(Rows - 1) :
            (OneInjected(name, p) /\ OthersKeepAll(stats, name)) =>
                df_filtered = AllBut(p)

GrandMeanDiopter ==
    RDivInt(RAdd(Mean(Column(df, "LeftDiopters", df_filtered)),
                 Mean(Column(df, "RightDiopters", df_filtered))), 2)

NearGrandMean(r) ==
    /\ RLt(RAbs(RSub(At(df.LeftDiopters, r), GrandMeanDiopter)),
           config.STABLE_SAMPLE_THRESHOLD)
    /\ RLt(RAbs(RSub(At(df.RightDiopters, r), GrandMeanDiopter)),
           config.STABLE_SAMPLE_THRESHOLD)

\* C7: the stable sample is the set of filtered samples whose left and right
\* diopters both lie strictly within STABLE_SAMPLE_THRESHOLD of the grand mean
\* of the two eyes; its first and last timestamps are reported, or that there
\* is no stable sample when it is empty.
C7_StableAroundGrandMean ==
    pc = "summarized" =>
        /\ stable_sample =
             SelectLabels(df_filtered, 1,
                          [k \in 1..Len(df_filtered) |-> NearGrandMean(df_filtered[k])])
        /\ IF stable_sample = <<>> THEN report.stable = "none"
           ELSE /\ report.stable = "range"
                /\ report.start_time = At(df.Timestamp, stable_sample[1])
                /\ report.end_time =
                     At(df.Timestamp, stable_sample[Len(stable_sample)])

====
